---- MODULE Spec2Model ----
(***************************************************************************)
(* A model of the Image class of Image/src/image/Image.py: a height x      *)
(* width x 4 uint8 buffer with bounds-checked pixel access, clear,         *)
(* Bresenham line drawing and clipped rectangle fill.                      *)
(*                                                                         *)
(* A colour argument is a record [kind, v]:                                *)
(*    kind = "none"   the Python value None                                *)
(*    kind = "rgba"   an rgba dataclass instance, v = <<r, g, b, a>>       *)
(*    kind = "tuple"  a Python tuple of integers, v = its elements         *)
(*    kind = "int"    a bare Python integer, v = <<n>>                     *)
(*    kind = "str"    a Python string                                      *)
(* A call's outcome is recorded in err: "none" or the name of the          *)
(* exception class that left the call.                                     *)
(***************************************************************************)
EXTENDS Integers, Sequences, FiniteSets, TLC

\* ---------------------------------------------------------------- bounds
W == 3             \* longer side of the modelled images (W x H and H x W)
H == 2             \* shorter side of the modelled images
MaxOps == 1        \* number of calls made on an image after its construction

VARIABLES
    width,      \* Image._width
    height,     \* Image._height
    rgba_data,  \* Image._rgba_data: [<<row, col>> -> <<r, g, b, a>>]
    prev_data,  \* rgba_data as it was when the last call started
    op,         \* the last call: [name, args, color]
    err,        \* how the last call ended
    ret,        \* the value the last call returned (<<>> when it returned None)
    plotted,    \* the points the last line() call passed to set_pixel without error
    nops        \* number of calls made so far

vars == <<width, height, rgba_data, prev_data, op, err, ret, plotted, nops>>

\* ------------------------------------------------------- colour arguments
NoneColor == [kind |-> "none", v |-> <<>>]
Rgba(r, g, b, a) == [kind |-> "rgba", v |-> <<r, g, b, a>>]
Tup(s) == [kind |-> "tuple", v |-> s]
IntColor(n) == [kind |-> "int", v |-> <<n>>]
StrColor == [kind |-> "str", v |-> <<>>]

\* rgba.__post_init__: every component is an int from 0 to 255, or ValueError
rgba_post_init(v) ==
    IF \A i \in 1..4 : 0 <= v[i] /\ v[i] <= 255 THEN "none" ELSE "ValueError"

\* Image._validate_rgba: the match statement over the shape of the value
validate_rgba(value) ==
    CASE value.kind = "none" -> [err |-> "none", v |-> <<255, 255, 255, 255>>]
      [] value.kind = "rgba" -> [err |-> "none", v |-> value.v]
      [] value.kind = "tuple" /\ Len(value.v) = 3 ->
             [err |-> "none", v |-> <<value.v[1], value.v[2], value.v[3], 255>>]
      [] value.kind = "tuple" /\ Len(value.v) = 4 -> [err |-> "none", v |-> value.v]
      [] OTHER -> [err |-> "TypeError", v |-> <<>>]

\* ------------------------------------------------------- the uint8 buffer
\* a Python integer fits the uint8 dtype of the buffer
InUint8(c) == 0 <= c /\ c <= 255
FitsUint8(t) == \A i \in 1..Len(t) : InUint8(t[i])

\* the unsafe cast of an integer to uint8
ToUint8(c) == c % 256
CastUint8(t) == [i \in 1..Len(t) |-> ToUint8(t[i])]

\* numpy integer indexing of an axis of size n: -n .. n-1 are accepted and a
\* negative index counts from the end
NpInRange(i, n) == -n <= i /\ i < n
NpNorm(i, n) == IF i < 0 THEN i + n ELSE i

Cells(w, h) == (0..(h - 1)) \X (0..(w - 1))

\* np.full((height, width, 4), fill, dtype=np.uint8): the fill is cast unsafely
np_full(w, h, fill) == [p \in Cells(w, h) |-> CastUint8(fill)]

\* _check_bounds without the lower limits
check_bounds_no_lower(x, y, w, h) == x <= w /\ y <= h

\* Image._check_bounds
check_bounds(x, y, w, h) == 0 <= x /\ x <= w /\ 0 <= y /\ y <= h

\* Image.get_pixel: [err, v]
get_pixel(data, w, h, x, y) ==
    IF ~check_bounds(x, y, w, h) THEN [err |-> "IndexError", v |-> <<>>]
    ELSE IF ~(NpInRange(y, h) /\ NpInRange(x, w)) THEN [err |-> "IndexError", v |-> <<>>]
    ELSE [err |-> "none", v |-> data[<<NpNorm(y, h), NpNorm(x, w)>>]]

\* the assignment with the indices the other way round: self._rgba_data[x, y] = t
np_setitem_transposed(data, w, h, x, y, t, strict) ==
    IF ~(NpInRange(x, h) /\ NpInRange(y, w)) THEN [err |-> "IndexError", data |-> data]
    ELSE IF strict /\ ~FitsUint8(t) THEN [err |-> "OverflowError", data |-> data]
    ELSE [err |-> "none",
          data |-> [data EXCEPT ![<<NpNorm(x, h), NpNorm(y, w)>>] = CastUint8(t)]]

\* the assignment self._rgba_data[y, x] = t of a 4-tuple of Python integers:
\* the index is resolved first; an integer outside uint8 raises OverflowError
\* on a numpy that refuses it (strict) and is stored modulo 256 on one that
\* does not
np_setitem(data, w, h, x, y, t, strict) ==
    IF ~(NpInRange(y, h) /\ NpInRange(x, w)) THEN [err |-> "IndexError", data |-> data]
    ELSE IF strict /\ ~FitsUint8(t) THEN [err |-> "OverflowError", data |-> data]
    ELSE [err |-> "none",
          data |-> [data EXCEPT ![<<NpNorm(y, h), NpNorm(x, w)>>] = CastUint8(t)]]

\* set_pixel that skips a point outside the image instead of raising
set_pixel_silent(data, w, h, x, y, value, strict) ==
    IF ~(0 <= x /\ x < w /\ 0 <= y /\ y < h) THEN [err |-> "none", data |-> data]
    ELSE LET c == validate_rgba(value)
         IN  IF c.err # "none" THEN [err |-> c.err, data |-> data]
             ELSE [err |-> "none", data |-> [data EXCEPT ![<<y, x>>] = CastUint8(c.v)]]

\* Image.set_pixel: [err, data]
set_pixel(data, w, h, x, y, value, strict) ==
    IF ~check_bounds(x, y, w, h) THEN [err |-> "IndexError", data |-> data]
    ELSE LET c == validate_rgba(value)
         IN  IF c.err # "none" THEN [err |-> c.err, data |-> data]
             ELSE np_setitem(data, w, h, x, y, c.v, strict)

\* ------------------------------------------------------------ Image.line
Abs(n) == IF n < 0 THEN 0 - n ELSE n

\* the two loops of Image.line, from iteration i on: major is "x" in the
\* branch dx > dy and "y" in the other; returns [err, data, pts, at]
RECURSIVE line_loop(_, _, _, _, _, _, _, _, _, _, _, _, _, _, _)
line_loop(data, w, h, major, i, x, y, deviation, dx, dy, sx_step, sy_step, line_color, strict, pts) ==
    IF i >= (IF major = "x" THEN dx ELSE dy) + 1
    THEN [err |-> "none", data |-> data, pts |-> pts, at |-> <<>>]
    ELSE LET r == set_pixel(data, w, h, x, y, Tup(line_color), strict)
         IN  IF r.err # "none"
             THEN [err |-> r.err, data |-> r.data, pts |-> pts, at |-> <<x, y>>]
             ELSE IF major = "x"
                  THEN LET d == deviation - dy
                       IN  line_loop(r.data, w, h, major, i + 1, x + sx_step,
                                     IF d < 0 THEN y + sy_step ELSE y,
                                     IF d < 0 THEN d + dx ELSE d,
                                     dx, dy, sx_step, sy_step, line_color, strict,
                                     Append(pts, <<x, y>>))
                  ELSE LET d == deviation - dx
                       IN  line_loop(r.data, w, h, major, i + 1,
                                     IF d < 0 THEN x + sx_step ELSE x,
                                     y + sy_step,
                                     IF d < 0 THEN d + dy ELSE d,
                                     dx, dy, sx_step, sy_step, line_color, strict,
                                     Append(pts, <<x, y>>))

\* line with the deviation started at the whole major extent, not half of it
line_no_halving(data, w, h, sx, sy, ex, ey, color, strict) ==
    LET c == validate_rgba(color)
        dx == Abs(sx - ex)
        dy == Abs(sy - ey)
        sx_step == IF sx < ex THEN 1 ELSE -1
        sy_step == IF sy < ey THEN 1 ELSE -1
    IN  IF c.err # "none"
        THEN [err |-> c.err, data |-> data, pts |-> <<>>, at |-> <<>>]
        ELSE IF dx > dy
             THEN line_loop(data, w, h, "x", 0, sx, sy, dx, dx, dy,
                            sx_step, sy_step, c.v, strict, <<>>)
             ELSE line_loop(data, w, h, "y", 0, sx, sy, dy, dx, dy,
                            sx_step, sy_step, c.v, strict, <<>>)

\* line that steps the minor axis upwards whatever the direction of the line
line_one_way(data, w, h, sx, sy, ex, ey, color, strict) ==
    LET c == validate_rgba(color)
        dx == Abs(sx - ex)
        dy == Abs(sy - ey)
        sx_step == IF dx > dy THEN (IF sx < ex THEN 1 ELSE -1) ELSE 1
        sy_step == IF dx > dy THEN 1 ELSE (IF sy < ey THEN 1 ELSE -1)
    IN  IF c.err # "none"
        THEN [err |-> c.err, data |-> data, pts |-> <<>>, at |-> <<>>]
        ELSE IF dx > dy
             THEN line_loop(data, w, h, "x", 0, sx, sy, dx \div 2, dx, dy,
                            sx_step, sy_step, c.v, strict, <<>>)
             ELSE line_loop(data, w, h, "y", 0, sx, sy, dy \div 2, dx, dy,
                            sx_step, sy_step, c.v, strict, <<>>)

\* Image.line: [err, data, pts, at]
line(data, w, h, sx, sy, ex, ey, color, strict) ==
    LET c == validate_rgba(color)
        dx == Abs(sx - ex)
        dy == Abs(sy - ey)
        sx_step == IF sx < ex THEN 1 ELSE -1
        sy_step == IF sy < ey THEN 1 ELSE -1
    IN  IF c.err # "none"
        THEN [err |-> c.err, data |-> data, pts |-> <<>>, at |-> <<>>]
        ELSE IF dx > dy
             THEN line_loop(data, w, h, "x", 0, sx, sy, dx \div 2, dx, dy,
                            sx_step, sy_step, c.v, strict, <<>>)
             ELSE line_loop(data, w, h, "y", 0, sx, sy, dy \div 2, dx, dy,
                            sx_step, sy_step, c.v, strict, <<>>)

\* ------------------------------------------------------- Image.rectangle
Min(a, b) == IF a < b THEN a ELSE b
Max(a, b) == IF a > b THEN a ELSE b

\* the slice assignment self._rgba_data[y1 : y2 + 1, x1 : x2 + 1] = t
np_setslice(data, x1, y1, x2, y2, t, strict) ==
    IF strict /\ ~FitsUint8(t) THEN [err |-> "OverflowError", data |-> data]
    ELSE [err |-> "none",
          data |-> [p \in DOMAIN data |->
                       IF y1 <= p[1] /\ p[1] <= y2 /\ x1 <= p[2] /\ p[2] <= x2
                       THEN CastUint8(t) ELSE data[p]]]

\* rectangle without the sorting of the corners
rectangle_unsorted(data, w, h, tx, ty, bx, by, color, strict) ==
    LET c == validate_rgba(color)
        x1 == Max(0, tx)
        y1 == Max(0, ty)
        x2 == Min(w - 1, bx)
        y2 == Min(h - 1, by)
    IN  IF c.err # "none" THEN [err |-> c.err, data |-> data]
        ELSE IF x1 > x2 \/ y1 > y2 THEN [err |-> "none", data |-> data]
        ELSE np_setslice(data, x1, y1, x2, y2, c.v, strict)

\* rectangle with each corner clamped into the image on both sides
rectangle_clamped(data, w, h, tx, ty, bx, by, color, strict) ==
    LET c == validate_rgba(color)
        x1 == Min(w - 1, Max(0, Min(tx, bx)))
        y1 == Min(h - 1, Max(0, Min(ty, by)))
        x2 == Max(0, Min(w - 1, Max(tx, bx)))
        y2 == Max(0, Min(h - 1, Max(ty, by)))
    IN  IF c.err # "none" THEN [err |-> c.err, data |-> data]
        ELSE IF x1 > x2 \/ y1 > y2 THEN [err |-> "none", data |-> data]
        ELSE np_setslice(data, x1, y1, x2, y2, c.v, strict)

\* Image.rectangle: [err, data]
rectangle(data, w, h, tx, ty, bx, by, color, strict) ==
    LET c == validate_rgba(color)
        x1 == Max(0, Min(tx, bx))
        y1 == Max(0, Min(ty, by))
        x2 == Min(w - 1, Max(tx, bx))
        y2 == Min(h - 1, Max(ty, by))
    IN  IF c.err # "none" THEN [err |-> c.err, data |-> data]
        ELSE IF x1 > x2 \/ y1 > y2 THEN [err |-> "none", data |-> data]
        ELSE np_setslice(data, x1, y1, x2, y2, c.v, strict)

\* ----------------------------------------------------------- Image.clear
\* self._rgba_data[:] = color: the value is converted by numpy, never by
\* _validate_rgba. A 4-tuple broadcasts over the pixels, a bare integer over
\* every channel, and so does a 1-tuple; a tuple of another length cannot
\* broadcast (ValueError); None and an rgba instance are no numbers
\* (TypeError); a string is no integer literal (ValueError)
clear(data, color, strict) ==
    CASE color.kind = "tuple" /\ Len(color.v) = 4 ->
             IF strict /\ ~FitsUint8(color.v) THEN [err |-> "OverflowError", data |-> data]
             ELSE [err |-> "none", data |-> [p \in DOMAIN data |-> CastUint8(color.v)]]
      [] color.kind = "int" ->
             IF strict /\ ~FitsUint8(color.v) THEN [err |-> "OverflowError", data |-> data]
             ELSE [err |-> "none",
                   data |-> [p \in DOMAIN data |->
                                [i \in 1..4 |-> ToUint8(color.v[1])]]]
      [] color.kind = "tuple" /\ Len(color.v) = 1 ->
             IF strict /\ ~FitsUint8(color.v) THEN [err |-> "OverflowError", data |-> data]
             ELSE [err |-> "none",
                   data |-> [p \in DOMAIN data |->
                                [i \in 1..4 |-> ToUint8(color.v[1])]]]
      [] color.kind = "tuple" -> [err |-> "ValueError", data |-> data]
      [] color.kind = "str" -> [err |-> "ValueError", data |-> data]
      [] OTHER -> [err |-> "TypeError", data |-> data]

\* ------------------------------------------------------------ the inputs
\* the three accepted shapes with every channel in 0..255
ValidColors == {Rgba(255, 0, 0, 255), Tup(<<0, 255, 0>>), Tup(<<0, 0, 255, 128>>)}
\* tuples of an accepted length with a channel outside 0..255
BadChannelColors == {Tup(<<300, 0, 0>>), Tup(<<0, 0 - 1, 0, 255>>)}
\* values of no accepted shape
BadShapeColors == {IntColor(7), Tup(<<1, 2>>), StrColor}
ColorInputs == ValidColors \cup BadChannelColors \cup {NoneColor, IntColor(7)}
ClearInputs == ValidColors \cup BadChannelColors \cup BadShapeColors \cup {NoneColor}
FillInputs == {NoneColor, Tup(<<0, 0, 255, 128>>), Tup(<<300, 0, 0>>)}
DrawColors == {Rgba(255, 0, 0, 255)}

\* the builds of numpy a colour can tell apart: one that refuses an integer
\* outside uint8 (strict) and one that stores it modulo 256
Builds(color) ==
    IF color.kind \in {"tuple", "int"} /\ ~FitsUint8(color.v) THEN BOOLEAN ELSE {FALSE}

\* coordinates around an axis of size n: one step outside on either side
Near(n) == (0 - 1)..n
\* and the values at which numpy's negative indexing starts and stops
Wide(n) == {0 - n - 1, 0 - n} \cup Near(n) \cup {n + 1}
\* an axis with a value far outside on the low side and one next to the high side
FarLow(n) == {0 - n - 1} \cup (0..n)
\* an axis with a value next to the low side and one far outside on the high side
FarHigh(n) == ((0 - 1)..(n - 1)) \cup {n + n}
\* the corners of the image and the points diagonally outside them
Diagonal(w, h) == {<<0 - 1, 0 - 1>>, <<0, 0>>, <<w - 1, h - 1>>, <<w, h>>}
\* two points far outside the image
Remote(w, h) == {<<0 - w - 1, h + h>>, <<w + w, h + h + 1>>}

Inside(p, w, h) == 0 <= p[1] /\ p[1] < w /\ 0 <= p[2] /\ p[2] < h
\* the pairs of points of P with at least one point in the image
Touching(P, w, h) == {l \in P \X P : Inside(l[1], w, h) \/ Inside(l[2], w, h)}

Call(name, args, color) == [name |-> name, args |-> args, color |-> color]

\* ------------------------------------------------------------------ Init
\* Image.__init__ with each fill colour that _validate_rgba accepts
InitWith(fills) ==
    /\ \E d \in {<<W, H>>, <<H, W>>} : width = d[1] /\ height = d[2]
    /\ \E fill \in fills :
          /\ validate_rgba(fill).err = "none"
          /\ rgba_data = np_full(width, height, validate_rgba(fill).v)
          /\ op = Call("__init__", <<width, height>>, fill)
    /\ prev_data = rgba_data
    /\ err = "none"
    /\ ret = <<>>
    /\ plotted = <<>>
    /\ nops = 0

Init == InitWith(FillInputs)
InitDraw == InitWith({NoneColor})

\* --------------------------------------------------------------- actions
Finish(call, e, data, r, pts) ==
    /\ nops' = nops + 1
    /\ op' = call
    /\ err' = e
    /\ prev_data' = rgba_data
    /\ rgba_data' = data
    /\ ret' = r
    /\ plotted' = pts
    /\ UNCHANGED <<width, height>>

GetPixel(points) ==
    /\ nops < MaxOps
    /\ \E p \in points :
          \E r \in {get_pixel(rgba_data, width, height, p[1], p[2])} :
              Finish(Call("get_pixel", p, NoneColor), r.err, rgba_data, r.v, <<>>)

SetPixel(points, colors) ==
    /\ nops < MaxOps
    /\ \E p \in points, value \in colors :
          \E strict \in Builds(value) :
              \E r \in {set_pixel(rgba_data, width, height, p[1], p[2], value, strict)} :
                  Finish(Call("set_pixel", p, value), r.err, r.data, <<>>, <<>>)

Clear(colors) ==
    /\ nops < MaxOps
    /\ \E color \in colors :
          \E strict \in Builds(color) :
              \E r \in {clear(rgba_data, color, strict)} :
                  Finish(Call("clear", <<>>, color), r.err, r.data, <<>>, <<>>)

Line(lines, colors) ==
    /\ nops < MaxOps
    /\ \E l \in lines, color \in colors :
          \E strict \in Builds(color) :
              \E r \in {line(rgba_data, width, height,
                             l[1][1], l[1][2], l[2][1], l[2][2], color, strict)} :
                  Finish(Call("line", l[1] \o l[2], color), r.err, r.data, r.at, r.pts)

Rectangle(rects, colors) ==
    /\ nops < MaxOps
    /\ \E c \in rects, color \in colors :
          \E strict \in Builds(color) :
              \E r \in {rectangle(rgba_data, width, height,
                                  c[1][1], c[1][2], c[2][1], c[2][2], color, strict)} :
                  Finish(Call("rectangle", c[1] \o c[2], color), r.err, r.data, <<>>, <<>>)

\* a width setter that assigns before it raises
width_setter_assigns(w, value) == value

\* the width and height setters: they raise and assign nothing
width_setter(w, value) == w
height_setter(h, value) == h

SetWidth ==
    /\ nops < MaxOps
    /\ \E value \in Near(W) :
          /\ nops' = nops + 1
          /\ op' = Call("width", <<value>>, NoneColor)
          /\ err' = "ImageAccessError"
          /\ width' = width_setter(width, value)
          /\ prev_data' = rgba_data
          /\ ret' = <<>>
          /\ plotted' = <<>>
          /\ UNCHANGED <<height, rgba_data>>

SetHeight ==
    /\ nops < MaxOps
    /\ \E value \in Near(H) :
          /\ nops' = nops + 1
          /\ op' = Call("height", <<value>>, NoneColor)
          /\ err' = "ImageAccessError"
          /\ height' = height_setter(height, value)
          /\ prev_data' = rgba_data
          /\ ret' = <<>>
          /\ plotted' = <<>>
          /\ UNCHANGED <<width, rgba_data>>

\* ------------------------------------------------------- specifications
\* every operation, on the corners of the image
Next ==
    \/ GetPixel(Diagonal(width, height))
    \/ SetPixel(Diagonal(width, height), ColorInputs)
    \/ Clear(ClearInputs)
    \/ Line(Diagonal(width, height) \X Diagonal(width, height), ColorInputs)
    \/ Rectangle((Diagonal(width, height) \cup Remote(width, height))
                    \X (Diagonal(width, height) \cup Remote(width, height)), ColorInputs)
    \/ SetWidth
    \/ SetHeight
Spec == Init /\ [][Next]_vars

\* pixel access and clear, over every coordinate around the image
NextPixel ==
    \/ GetPixel(Wide(width) \X Near(height))
    \/ SetPixel(Wide(width) \X Near(height), ColorInputs)
    \/ Clear(ClearInputs)
SpecPixel == Init /\ [][NextPixel]_vars

\* every line between two points in or next to the image, one at least in it
NextLine == Line(Touching(Near(width) \X Near(height), width, height), DrawColors)
SpecLine == InitDraw /\ [][NextLine]_vars

\* every rectangle between two corners in, next to or far from the image
NextRect ==
    Rectangle((FarLow(width) \X FarHigh(height)) \X (FarLow(width) \X FarHigh(height)),
              DrawColors)
SpecRect == InitDraw /\ [][NextRect]_vars

\* =============================================================== claims
\* the accepted colour shapes with every channel in 0..255, and the 4-tuple
\* each stands for
IsValidColor(c) ==
    /\ c.kind \in {"rgba", "tuple"}
    /\ Len(c.v) \in (IF c.kind = "rgba" THEN {4} ELSE {3, 4})
    /\ \A i \in 1..Len(c.v) : c.v[i] \in 0..255
Normalized(c) == IF Len(c.v) = 3 THEN c.v \o <<255>> ELSE c.v
\* a tuple of an accepted length with a channel outside 0..255
HasBadChannel(c) ==
    /\ c.kind = "tuple"
    /\ Len(c.v) \in {3, 4}
    /\ \E i \in 1..Len(c.v) : c.v[i] \notin 0..255

Called(name) == nops > 0 /\ op.name = name
Start == <<op.args[1], op.args[2]>>
End == <<op.args[3], op.args[4]>>
PointsOf(seq) == {seq[i] : i \in 1..Len(seq)}
\* the cell of the buffer that holds the pixel at point q
CellOf(q) == <<q[2], q[1]>>
InImage(q) == Inside(q, width, height)
AllPoints == Wide(width) \X Wide(height)

\* the Bresenham sequence in closed form: after k steps along the major axis
\* of extent M the minor axis of extent m has made
\* floor((k*m + ceil(M/2) - 1) / M) steps
MinorSteps(k, M, m) == IF M = 0 THEN 0 ELSE (k * m + ((M + 1) \div 2) - 1) \div M
Bresenham(s, e) ==
    LET dx == Abs(s[1] - e[1])
        dy == Abs(s[2] - e[2])
        xs == IF s[1] < e[1] THEN 1 ELSE -1
        ys == IF s[2] < e[2] THEN 1 ELSE -1
    IN  [k \in 1..(Max(dx, dy) + 1) |->
            IF dx > dy
            THEN <<s[1] + xs * (k - 1), s[2] + ys * MinorSteps(k - 1, dx, dy)>>
            ELSE <<s[1] + xs * MinorSteps(k - 1, dy, dx), s[2] + ys * (k - 1)>>]

\* the pixels are those of before, but for the points of P, which hold c
Painted(P, c) ==
    \A p \in DOMAIN rgba_data :
        rgba_data[p] = IF <<p[2], p[1]>> \in P THEN c ELSE prev_data[p]

\* C1: a line between two points of the image plots max(dx, dy) + 1 distinct
\* pixels, from the start point to the end point, each one step along the
\* major axis and at most one step along the minor axis from the one before;
\* the plotted pixels hold the line colour and every other pixel is unchanged.
C1_LineShape ==
    (Called("line") /\ IsValidColor(op.color) /\ InImage(Start) /\ InImage(End)) =>
        LET dx == Abs(Start[1] - End[1])
            dy == Abs(Start[2] - End[2])
            n == Len(plotted)
        IN  /\ err = "none"
            /\ n = Max(dx, dy) + 1
            /\ Cardinality(PointsOf(plotted)) = n
            /\ plotted[1] = Start
            /\ plotted[n] = End
            /\ \A i \in 1..(n - 1) :
                  /\ Abs(plotted[i + 1][1] - plotted[i][1]) <= 1
                  /\ Abs(plotted[i + 1][2] - plotted[i][2]) <= 1
                  /\ IF dx > dy
                     THEN Abs(plotted[i + 1][1] - plotted[i][1]) = 1
                     ELSE Abs(plotted[i + 1][2] - plotted[i][2]) = 1
            /\ Painted(PointsOf(plotted), Normalized(op.color))
C1_Witness ==
    /\ Called("line") /\ InImage(Start) /\ InImage(End)
    /\ Abs(Start[1] - End[1]) = 2 /\ Abs(Start[2] - End[2]) = 1
    /\ err = "none" /\ Len(plotted) = 3

\* the line of the last call drawn the other way round on the same image
Reversed ==
    line(prev_data, width, height, End[1], End[2], Start[1], Start[2], op.color, FALSE)
RECURSIVE Gcd(_, _)
Gcd(a, b) == IF b = 0 THEN a ELSE Gcd(b, a % b)
\* the deviation never reaches the tie at half the major extent
NoTie(dx, dy) ==
    \/ Max(dx, dy) = 0
    \/ (Max(dx, dy) \div Gcd(Max(dx, dy), Min(dx, dy))) % 2 = 1

\* C2 as claimed: a line and the line between the same points taken the other
\* way round set the same pixels.
C2_DirectionIndependent ==
    (Called("line") /\ IsValidColor(op.color) /\ InImage(Start) /\ InImage(End)) =>
        rgba_data = Reversed.data
\* C2 as amended: the two lines plot the same pixels exactly when the major
\* extent divided by gcd(dx, dy) is odd, which covers every horizontal,
\* vertical and exactly diagonal line; then the resulting images are equal.
C2_DirectionIndependentNoTie ==
    (Called("line") /\ IsValidColor(op.color) /\ InImage(Start) /\ InImage(End)) =>
        LET dx == Abs(Start[1] - End[1])
            dy == Abs(Start[2] - End[2])
        IN  /\ (PointsOf(plotted) = PointsOf(Reversed.pts)) <=> NoTie(dx, dy)
            /\ NoTie(dx, dy) => rgba_data = Reversed.data
C2_Witness ==
    /\ Called("line") /\ InImage(Start) /\ InImage(End) /\ err = "none"
    /\ Abs(Start[1] - End[1]) = 1 /\ Abs(Start[2] - End[2]) = 1
    /\ rgba_data = Reversed.data /\ rgba_data # prev_data

\* the inclusive range between two corners
Between(q) ==
    /\ Min(Start[1], End[1]) <= q[1] /\ q[1] <= Max(Start[1], End[1])
    /\ Min(Start[2], End[2]) <= q[2] /\ q[2] <= Max(Start[2], End[2])
Covered == {q \in (0..(width - 1)) \X (0..(height - 1)) : Between(q)}

\* C3: a rectangle sets the pixels of the image between its two corners,
\* inclusive, to the fill colour and leaves every other pixel as it was; the
\* corners given the other way round, or as the other two corners of the same
\* rectangle, give the same image.
C3_RectangleFill ==
    (Called("rectangle") /\ IsValidColor(op.color)) =>
        /\ Painted(Covered, Normalized(op.color))
        /\ rgba_data = rectangle(prev_data, width, height, End[1], End[2],
                                 Start[1], Start[2], op.color, FALSE).data
        /\ rgba_data = rectangle(prev_data, width, height, Start[1], End[2],
                                 End[1], Start[2], op.color, FALSE).data
C3_Witness ==
    /\ Called("rectangle") /\ err = "none"
    /\ Start[1] > End[1] /\ Start[2] < End[2]
    /\ ~InImage(Start) /\ ~InImage(End)
    /\ Covered # {} /\ Covered # (0..(width - 1)) \X (0..(height - 1))
    /\ rgba_data # prev_data

\* C4: a rectangle with a valid colour raises for no corners; one that lies
\* outside the image leaves every pixel unchanged; a line with a valid colour
\* whose points leave the image raises IndexError.
C4_RectangleNeverRaises ==
    /\ (Called("rectangle") /\ IsValidColor(op.color)) =>
          /\ err = "none"
          /\ Covered = {} => rgba_data = prev_data
    /\ (Called("line") /\ IsValidColor(op.color)
          /\ \E q \in PointsOf(Bresenham(Start, End)) : ~InImage(q)) =>
          err = "IndexError"
C4_Witness ==
    /\ Called("rectangle") /\ IsValidColor(op.color) /\ err = "none"
    /\ Start[1] > width /\ End[1] > width /\ Covered = {}
    /\ rgba_data = prev_data

\* C5: after a write of a valid colour at a point of the image, a read of that
\* point returns the normalized colour and a read of any other point returns
\* what it returned before.
C5_WriteReadRoundTrip ==
    (Called("set_pixel") /\ IsValidColor(op.color) /\ InImage(op.args)) =>
        /\ err = "none"
        /\ get_pixel(rgba_data, width, height, op.args[1], op.args[2])
              = [err |-> "none", v |-> Normalized(op.color)]
        /\ \A q \in AllPoints \ {op.args} :
              get_pixel(rgba_data, width, height, q[1], q[2])
                 = get_pixel(prev_data, width, height, q[1], q[2])
C5_Witness ==
    /\ Called("set_pixel") /\ InImage(op.args) /\ err = "none"
    /\ op.color.kind = "tuple" /\ Len(op.color.v) = 3
    /\ rgba_data[CellOf(op.args)] = op.color.v \o <<255>>
    /\ prev_data[CellOf(op.args)] # rgba_data[CellOf(op.args)]

\* C6: a read, or a write of a valid colour, succeeds exactly at the points of
\* the image; at any other point, the boundary x = width or y = height
\* included, it raises IndexError, returns nothing and changes no pixel.
C6_BoundsExact ==
    (Called("get_pixel") \/ (Called("set_pixel") /\ IsValidColor(op.color))) =>
        /\ err = "none" <=> InImage(op.args)
        /\ ~InImage(op.args) => (err = "IndexError" /\ ret = <<>> /\ rgba_data = prev_data)
        /\ (Called("get_pixel") /\ InImage(op.args)) => ret = prev_data[CellOf(op.args)]
C6_Witness ==
    /\ Called("set_pixel") /\ IsValidColor(op.color)
    /\ op.args[1] = width /\ op.args[2] \in 0..(height - 1)
    /\ err = "IndexError" /\ rgba_data = prev_data

\* the index of the first point of a sequence outside the image, 0 if none
FirstOutside(seq) ==
    IF \A i \in 1..Len(seq) : InImage(seq[i]) THEN 0
    ELSE CHOOSE i \in 1..Len(seq) :
            ~InImage(seq[i]) /\ \A j \in 1..(i - 1) : InImage(seq[j])

\* C7: a line whose Bresenham sequence leaves the image raises IndexError at
\* the first point outside it; the points before that one are plotted and
\* hold the line colour, no later point is plotted and every other pixel is
\* unchanged.
C7_LineAbortsAtFirstOutside ==
    (Called("line") /\ IsValidColor(op.color)
        /\ FirstOutside(Bresenham(Start, End)) > 0) =>
        LET seq == Bresenham(Start, End)
            k == FirstOutside(seq)
        IN  /\ err = "IndexError"
            /\ ret = seq[k]
            /\ plotted = SubSeq(seq, 1, k - 1)
            /\ Painted(PointsOf(SubSeq(seq, 1, k - 1)), Normalized(op.color))
C7_Witness ==
    /\ Called("line") /\ InImage(Start) /\ ~InImage(End)
    /\ err = "IndexError" /\ Len(plotted) >= 2
    /\ ret = End /\ rgba_data # prev_data

\* C8: clear accepts the three colour shapes and sets every pixel to the
\* normalized colour; any other shape raises TypeError and changes no pixel.
C8_ClearNormalizes ==
    Called("clear") =>
        IF IsValidColor(op.color)
        THEN /\ err = "none"
             /\ \A p \in DOMAIN rgba_data : rgba_data[p] = Normalized(op.color)
        ELSE op.color \in BadShapeColors => (err = "TypeError" /\ rgba_data = prev_data)

\* C9: the constructor, set_pixel, line and rectangle reject a tuple with a
\* channel outside 0..255 with the validation error of rgba (ValueError)
\* before any pixel is written, and no stored channel is a wrapped value.
C9_ChannelRangeEnforced ==
    (op.name \in {"__init__", "set_pixel", "line", "rectangle"}
        /\ HasBadChannel(op.color)) =>
        /\ err = rgba_post_init(Normalized(op.color))
        /\ err # "none"
        /\ rgba_data = prev_data
        /\ op.name # "__init__"

\* C10: width and height never change, an assignment to either raises
\* ImageAccessError, and the buffer holds width * height pixels.
C10_DimensionsFixed ==
    /\ [](/\ DOMAIN rgba_data = Cells(width, height)
          /\ Cardinality(DOMAIN rgba_data) = width * height
          /\ (Called("width") \/ Called("height")) =>
                (err = "ImageAccessError" /\ rgba_data = prev_data))
    /\ [][width' = width /\ height' = height]_vars
C10_Witness ==
    /\ Called("width") /\ op.args[1] # width /\ err = "ImageAccessError"

====
